---------------------------- MODULE Spec2Model ----------------------------
(***************************************************************************)
(* Model of source/enc_ctx.c of the AWS Encryption SDK for C: the          *)
(* encryption-context codec (size, serialize, deserialize) and clone.      *)
(*                                                                         *)
(* A string (struct aws_string) is a record [id, owned, bytes]: `owned` is *)
(* "allocator != NULL", (owned, id) is the identity of the object, bytes   *)
(* its contents.  A hash table is a function from key bytes (the table     *)
(* hashes and compares keys by content) to the stored element [key,value]. *)
(* The heap is the set `live` of ids of allocated, not yet freed strings.  *)
(* The iteration order of a hash table and the allocation that fails (if   *)
(* any) are inputs of every operation.                                     *)
(***************************************************************************)
EXTENDS Integers, Sequences, FiniteSets

VARIABLES
    enc_ctx,   \* the table deserialize fills / the destination of clone
    src,       \* the table size and serialize read / the source of clone
    output,    \* struct aws_byte_buf: [bytes (len = Len(bytes)), capacity]
    cursor,    \* struct aws_byte_cursor: the bytes not yet consumed
    live,      \* ids of the allocator-owned strings that are allocated
    result,    \* return code of the last call ("none" before any call)
    call       \* the last call: its name, its inputs and what it did

vars == <<enc_ctx, src, output, cursor, live, result, call>>

----------------------------------------------------------------------------
(* Program constants *)

UINT16_MAX == 65535

(* The largest size_t the model can hold: TLC's integers end at 2^31 - 1,
   below the SIZE_MAX of any build of enc_ctx.c.  The sums of line 64 add
   two string lengths and 4 to a value of at most 65535 and stay far below
   either, so the overflow branch is as unreachable here as on a real heap. *)
SIZE_MAX == 2147483647

(* Bounds of the model *)

MaxKeyLen == 1      \* keys of the tables to serialize have at most this length
MaxEntries == 2     \* tables to serialize hold at most this many entries
MaxCap == 15        \* small output buffers have capacity 0..MaxCap
MaxInputLen == 7    \* every byte string up to this length is an input to parse
MaxWireEntries == 3 \* longer inputs declare and carry at most this many entries
MaxCloneKeys == 2   \* the tables to clone draw their keys from this many keys

----------------------------------------------------------------------------
(* Return codes *)

AWS_OP_SUCCESS == "AWS_OP_SUCCESS"
ERR_LIMIT_EXCEEDED == "AWS_CRYPTOSDK_ERR_LIMIT_EXCEEDED"
ERR_BAD_CIPHERTEXT == "AWS_CRYPTOSDK_ERR_BAD_CIPHERTEXT"
ERR_SHORT_BUFFER == "AWS_ERROR_SHORT_BUFFER"
ERR_OOM == "AWS_ERROR_OOM"
ERR_OVERFLOW == "AWS_ERROR_OVERFLOW_DETECTED"

----------------------------------------------------------------------------
(* Helpers over sequences and sets *)

RECURSIVE Perms(_)
Perms(S) ==
    IF S = {} THEN {<<>>}
    ELSE UNION {{<<x>> \o p : p \in Perms(S \ {x})} : x \in S}

SeqsUpTo(S, n) == UNION {[1..k -> S] : k \in 0..n}

Pad(n) == [i \in 1..n |-> 0]

BE16LittleEndian(n) == <<n % 256, (n \div 256) % 256>>

(* A 16-bit big-endian integer, as aws_byte_buf_write_be16 lays it out *)
BE16(n) == <<(n \div 256) % 256, n % 256>>

(* ... and as aws_byte_cursor_read_be16 decodes it *)
FromBE16(b) == b[1] * 256 + b[2]

----------------------------------------------------------------------------
(* Strings *)

NullStr == [id |-> 0, owned |-> FALSE, bytes |-> <<>>]   \* a NULL aws_string *
StaticStr(i, b) == [id |-> i, owned |-> FALSE, bytes |-> b]
HeapStr(i, b) == [id |-> i, owned |-> TRUE, bytes |-> b]

(* aws_string_eq: byte-for-byte equality of the contents *)
aws_string_eq(a, b) == a.bytes = b.bytes

(* aws_string_destroy: frees an allocator-owned string, leaves a static
   one alone.  The heap after destroying s. *)
aws_string_destroy(heap, s) == IF s.owned THEN heap \ {s.id} ELSE heap

(* The allocator hands out the lowest id that is not allocated *)
NewId(heap) == CHOOSE i \in 1..(Cardinality(heap) + 1) : i \notin heap

(* aws_string_new_from_array: a fresh allocator-owned copy, NULL when the
   allocation fails *)
aws_string_new_from_array(heap, bytes, allocOk) ==
    IF allocOk THEN HeapStr(NewId(heap), bytes) ELSE NullStr

(* The heap once the (possibly NULL) result of an allocation is in it *)
WithStr(heap, s) == IF s.owned THEN heap \cup {s.id} ELSE heap

(* Every string a table stores *)
StringsOf(m) == {m[k].key : k \in DOMAIN m} \cup {m[k].value : k \in DOMAIN m}

OwnedIds(m) == {s.id : s \in {t \in StringsOf(m) : t.owned}}

EmptyTable == [k \in {} |-> 0]

(* The key/value byte pairs of a table: its logical contents *)
Pairs(m) == {<<k, m[k].value.bytes>> : k \in DOMAIN m}

aws_hash_table_get_entry_count(m) == Cardinality(DOMAIN m)

----------------------------------------------------------------------------
(* struct aws_byte_buf, as enc_ctx.c uses it *)

(* aws_byte_buf_write: appends only if the bytes fit in the capacity left *)
aws_byte_buf_write(buf, bytes) ==
    IF Len(buf.bytes) + Len(bytes) > buf.capacity
    THEN [ok |-> FALSE, buf |-> buf]
    ELSE [ok |-> TRUE, buf |-> [buf EXCEPT !.bytes = buf.bytes \o bytes]]

aws_byte_buf_write_be16(buf, n) == aws_byte_buf_write(buf, BE16(n))

aws_byte_buf_write_from_whole_string(buf, str) ==
    aws_byte_buf_write(buf, str.bytes)

(* aws_byte_buf_clean_up: releases the storage and zeroes the structure *)
aws_byte_buf_clean_up(buf) == [bytes |-> <<>>, capacity |-> 0]

----------------------------------------------------------------------------
(* aws_cryptosdk_enc_ctx_size *)

(* aws_add_size_checked_varargs: the sum, or -1 when it overflows size_t *)
aws_add_size_checked_varargs(a, b, c, d) ==
    IF a + b + c + d > SIZE_MAX THEN -1 ELSE a + b + c + d

size_add_entry_no_value_prefix(len, klen, vlen) ==
    aws_add_size_checked_varargs(len, klen, vlen, 2)

(* the body of one iteration's addition, line 64 *)
size_add_entry(len, klen, vlen) ==
    aws_add_size_checked_varargs(len, klen, vlen, 4)

RECURSIVE size_loop(_, _, _)
size_loop(m, order, serialized_len) ==
    IF order = <<>>
    THEN [rc |-> AWS_OP_SUCCESS, size |-> serialized_len]
    ELSE LET key == m[Head(order)].key
             value == m[Head(order)].value
             sum == size_add_entry(serialized_len, Len(key.bytes), Len(value.bytes))
         IN  IF sum < 0 THEN [rc |-> ERR_OVERFLOW, size |-> -1]
             ELSE IF sum > UINT16_MAX THEN [rc |-> ERR_LIMIT_EXCEEDED, size |-> -1]
             ELSE size_loop(m, Tail(order), sum)

(* [rc, size]: size is the value written to *size, -1 when it is not written.
   `order` is the order in which the hash iterator visits the keys. *)
aws_cryptosdk_enc_ctx_size(m, order) ==
    LET entry_count == aws_hash_table_get_entry_count(m)
    IN  IF entry_count > UINT16_MAX THEN [rc |-> ERR_LIMIT_EXCEEDED, size |-> -1]
        ELSE IF entry_count = 0 THEN [rc |-> AWS_OP_SUCCESS, size |-> 0]
        ELSE size_loop(m, order, 2)

----------------------------------------------------------------------------
(* aws_cryptosdk_enc_ctx_serialize *)

(* aws_cryptosdk_hash_elems_array_init: an array of the table's elements in
   iteration order; it allocates, so it can fail *)
aws_cryptosdk_hash_elems_array_init(m, order, allocOk) ==
    IF allocOk
    THEN [ok |-> TRUE, elems |-> [i \in 1..Len(order) |-> m[order[i]]]]
    ELSE [ok |-> FALSE, elems |-> <<>>]

(* aws_string_compare on byte arrays: negative, zero or positive *)
RECURSIVE aws_string_compare(_, _)
aws_string_compare(a, b) ==
    IF a = <<>> /\ b = <<>> THEN 0
    ELSE IF a = <<>> THEN -1
    ELSE IF b = <<>> THEN 1
    ELSE IF Head(a) # Head(b) THEN Head(a) - Head(b)
    ELSE aws_string_compare(Tail(a), Tail(b))

aws_cryptosdk_compare_hash_elems_by_key_string(x, y) ==
    aws_string_compare(x.key.bytes, y.key.bytes)

(* insertion of one element into an array sorted by the comparator *)
RECURSIVE sort_insert(_, _)
sort_insert(sorted, e) ==
    IF sorted = <<>> THEN <<e>>
    ELSE IF aws_cryptosdk_compare_hash_elems_by_key_string(e, Head(sorted)) < 0
         THEN <<e>> \o sorted
         ELSE <<Head(sorted)>> \o sort_insert(Tail(sorted), e)

RECURSIVE sort_from(_, _)
sort_from(sorted, rest) ==
    IF rest = <<>> THEN sorted
    ELSE sort_from(sort_insert(sorted, Head(rest)), Tail(rest))

aws_array_list_sort_skipped(elems) == elems

(* aws_array_list_sort(&elems, aws_cryptosdk_compare_hash_elems_by_key_string) *)
aws_array_list_sort(elems) == sort_from(<<>>, elems)

(* lines 114-117: the four writes of one element; the first that fails
   leaves the buffer as the writes before it made it *)
write_elem(buf, elem) ==
    LET w1 == aws_byte_buf_write_be16(buf, Len(elem.key.bytes) % 65536)
        w2 == aws_byte_buf_write_from_whole_string(w1.buf, elem.key)
        w3 == aws_byte_buf_write_be16(w2.buf, Len(elem.value.bytes) % 65536)
        w4 == aws_byte_buf_write_from_whole_string(w3.buf, elem.value)
    IN  IF ~w1.ok THEN w1
        ELSE IF ~w2.ok THEN w2
        ELSE IF ~w3.ok THEN w3
        ELSE w4

(* lines 102-125: the loop over the sorted array, and WRITE_ERR *)
RECURSIVE write_loop(_, _, _, _)
write_loop(buf, elems, idx, num_elems) ==
    IF idx > num_elems THEN [rc |-> AWS_OP_SUCCESS, output |-> buf]
    ELSE IF idx > Len(elems)   \* aws_array_list_get_at_ptr fails
    THEN [rc |-> "AWS_ERROR_INVALID_INDEX", output |-> buf]
    ELSE LET w == write_elem(buf, elems[idx])
         IN  IF ~w.ok
             THEN [rc |-> ERR_SHORT_BUFFER, output |-> aws_byte_buf_clean_up(w.buf)]
             ELSE write_loop(w.buf, elems, idx + 1, num_elems)

(* [rc, output].  allocOk: whether the allocation of the array succeeds. *)
aws_cryptosdk_enc_ctx_serialize(buf, m, order, allocOk) ==
    LET num_elems == aws_hash_table_get_entry_count(m)
        sz == aws_cryptosdk_enc_ctx_size(m, order)
        w == aws_byte_buf_write_be16(buf, num_elems % 65536)
        arr == aws_cryptosdk_hash_elems_array_init(m, order, allocOk)
    IN  IF num_elems > UINT16_MAX THEN [rc |-> ERR_LIMIT_EXCEEDED, output |-> buf]
        ELSE IF sz.rc # AWS_OP_SUCCESS THEN [rc |-> sz.rc, output |-> buf]
        ELSE IF sz.size = 0 THEN [rc |-> AWS_OP_SUCCESS, output |-> buf]
        ELSE IF buf.capacity < sz.size THEN [rc |-> ERR_SHORT_BUFFER, output |-> buf]
        ELSE IF ~w.ok
             THEN [rc |-> ERR_SHORT_BUFFER, output |-> aws_byte_buf_clean_up(buf)]
        ELSE IF ~arr.ok THEN [rc |-> ERR_OOM, output |-> w.buf]
        ELSE write_loop(w.buf, aws_array_list_sort(arr.elems), 1, num_elems)

----------------------------------------------------------------------------
(* The hash table, as enc_ctx.c uses it *)

(* aws_hash_table_put: [ok, m, heap, was_created].  A new key needs a slot
   and may need the table to grow, which can fail; an existing key has its
   old key (if another object) and old value destroyed and replaced. *)
aws_hash_table_put(m, heap, k, v, allocOk) ==
    LET kb == k.bytes
        stored == [x \in DOMAIN m \cup {kb} |->
                      IF x = kb THEN [key |-> k, value |-> v] ELSE m[x]]
    IN  IF kb \in DOMAIN m
        THEN [ok |-> TRUE, m |-> stored, was_created |-> FALSE,
              heap |-> aws_string_destroy(
                           IF m[kb].key # k
                           THEN aws_string_destroy(heap, m[kb].key) ELSE heap,
                           m[kb].value)]
        ELSE IF allocOk
        THEN [ok |-> TRUE, m |-> stored, was_created |-> TRUE, heap |-> heap]
        ELSE [ok |-> FALSE, m |-> m, was_created |-> FALSE, heap |-> heap]

(* aws_cryptosdk_enc_ctx_clear: removes every entry, destroying its key
   and value *)
aws_cryptosdk_enc_ctx_clear(m, heap) ==
    [m |-> EmptyTable, heap |-> heap \ OwnedIds(m)]

----------------------------------------------------------------------------
(* struct aws_byte_cursor, as enc_ctx.c uses it *)

Drop(cur, n) == SubSeq(cur, n + 1, Len(cur))

(* aws_byte_cursor_read_be16: [ok, val, cur]; a failed read leaves the
   cursor where it was *)
aws_byte_cursor_read_be16(cur) ==
    IF Len(cur) < 2 THEN [ok |-> FALSE, val |-> 0, cur |-> cur]
    ELSE [ok |-> TRUE, val |-> FromBE16(cur), cur |-> Drop(cur, 2)]

aws_byte_cursor_advance_unchecked(cur, len) ==
    IF len > Len(cur) THEN [ok |-> TRUE, bytes |-> cur, cur |-> <<>>]
    ELSE [ok |-> TRUE, bytes |-> SubSeq(cur, 1, len), cur |-> Drop(cur, len)]

(* aws_byte_cursor_advance_nospec: [ok, bytes, cur]; ok is "ptr != NULL" *)
aws_byte_cursor_advance_nospec(cur, len) ==
    IF len > Len(cur) THEN [ok |-> FALSE, bytes |-> <<>>, cur |-> cur]
    ELSE [ok |-> TRUE, bytes |-> SubSeq(cur, 1, len), cur |-> Drop(cur, len)]

----------------------------------------------------------------------------
(* aws_cryptosdk_enc_ctx_deserialize *)

deserialize_rethrow_no_clear(rc, m, heap, cur) ==
    [rc |-> rc, m |-> m, heap |-> heap, cursor |-> cur]

(* SHORT_BUF / RETHROW: the table is cleared and the error returned *)
deserialize_rethrow(rc, m, heap, cur) ==
    LET c == aws_cryptosdk_enc_ctx_clear(m, heap)
    IN  [rc |-> rc, m |-> c.m, heap |-> c.heap, cursor |-> cur]

(* lines 161-172 for one parsed entry: [rc, m, heap], rc = "next" when the
   loop goes on.  n is the number of allocations the call made before. *)
deserialize_insert_no_dup_check(m, heap, kbytes, vbytes, n, failAt) ==
    LET k == aws_string_new_from_array(heap, kbytes, n + 1 # failAt)
        heap1 == WithStr(heap, k)
        v == aws_string_new_from_array(heap1, vbytes, n + 2 # failAt)
        heap2 == WithStr(heap1, v)
        put == aws_hash_table_put(m, heap2, k, v, n + 3 # failAt)
    IN  IF k = NullStr \/ v = NullStr \/ ~put.ok
        THEN [rc |-> ERR_OOM, m |-> m,
              heap |-> aws_string_destroy(aws_string_destroy(heap2, k), v)]
        ELSE [rc |-> "next", m |-> put.m, heap |-> put.heap]

deserialize_insert(m, heap, kbytes, vbytes, n, failAt) ==
    LET k == aws_string_new_from_array(heap, kbytes, n + 1 # failAt)
        heap1 == WithStr(heap, k)
        v == aws_string_new_from_array(heap1, vbytes, n + 2 # failAt)
        heap2 == WithStr(heap1, v)
        put == aws_hash_table_put(m, heap2, k, v, n + 3 # failAt)
    IN  IF k = NullStr \/ v = NullStr \/ ~put.ok
        THEN [rc |-> ERR_OOM, m |-> m,
              heap |-> aws_string_destroy(aws_string_destroy(heap2, k), v)]
        ELSE IF ~put.was_created
        THEN [rc |-> ERR_BAD_CIPHERTEXT, m |-> put.m, heap |-> put.heap]
        ELSE [rc |-> "next", m |-> put.m, heap |-> put.heap]

(* lines 147-185: the loop over the declared entries *)
RECURSIVE deserialize_loop(_, _, _, _, _, _)
deserialize_loop(m, heap, cur, i, elem_count, failAt) ==
    IF i >= elem_count
    THEN [rc |-> AWS_OP_SUCCESS, m |-> m, heap |-> heap, cursor |-> cur]
    ELSE
    LET klen == aws_byte_cursor_read_be16(cur)
        k_cursor == aws_byte_cursor_advance_nospec(klen.cur, klen.val)
        vlen == aws_byte_cursor_read_be16(k_cursor.cur)
        v_cursor == aws_byte_cursor_advance_nospec(vlen.cur, vlen.val)
        ins == deserialize_insert(m, heap, k_cursor.bytes, v_cursor.bytes,
                                  3 * i, failAt)
    IN  IF ~klen.ok THEN deserialize_rethrow(ERR_SHORT_BUFFER, m, heap, klen.cur)
        ELSE IF ~k_cursor.ok
        THEN deserialize_rethrow(ERR_SHORT_BUFFER, m, heap, k_cursor.cur)
        ELSE IF ~vlen.ok
        THEN deserialize_rethrow(ERR_SHORT_BUFFER, m, heap, vlen.cur)
        ELSE IF ~v_cursor.ok
        THEN deserialize_rethrow(ERR_SHORT_BUFFER, m, heap, v_cursor.cur)
        ELSE IF ins.rc # "next"
        THEN deserialize_rethrow(ins.rc, ins.m, ins.heap, v_cursor.cur)
        ELSE deserialize_loop(ins.m, ins.heap, v_cursor.cur, i + 1,
                              elem_count, failAt)

(* [rc, m, heap, cursor].  failAt: which allocation of the call fails
   (allocation 3i+1 is entry i's key, 3i+2 its value, 3i+3 its slot in
   the table), 0 for none. *)
aws_cryptosdk_enc_ctx_deserialize(m, heap, cur, failAt) ==
    LET c == aws_cryptosdk_enc_ctx_clear(m, heap)
        elem_count == aws_byte_cursor_read_be16(cur)
    IN  IF Len(cur) = 0
        THEN [rc |-> AWS_OP_SUCCESS, m |-> c.m, heap |-> c.heap, cursor |-> cur]
        ELSE IF ~elem_count.ok
        THEN deserialize_rethrow(ERR_SHORT_BUFFER, c.m, c.heap, elem_count.cur)
        ELSE IF elem_count.val = 0
        THEN [rc |-> ERR_BAD_CIPHERTEXT, m |-> c.m, heap |-> c.heap,
              cursor |-> elem_count.cur]
        ELSE deserialize_loop(c.m, c.heap, elem_count.cur, 0,
                              elem_count.val, failAt)

----------------------------------------------------------------------------
(* aws_cryptosdk_enc_ctx_clone *)

clone_or_reuse_string_always_reuse(heap, str, allocOk) == str

(* clone_or_reuse_string: the string itself when it is static (null
   allocator), else a fresh copy, NULL when the allocation fails *)
clone_or_reuse_string(heap, str, allocOk) ==
    IF ~str.owned THEN str
    ELSE aws_string_new_from_array(heap, str.bytes, allocOk)

(* What a call has done so far: st = [dest, heap, allocs, destroys, deletes,
   puts, installed].  allocs counts the strings allocated, destroys the calls
   of aws_string_destroy on a string, deletes and puts the entries removed
   from and added to dest, installed the pairs [from, to] of a source string
   and the string stored in dest for it. *)
CloneStart(dest, heap) ==
    [dest |-> dest, heap |-> heap, allocs |-> 0, destroys |-> 0,
     deletes |-> 0, puts |-> 0, installed |-> {}]

(* aws_hash_iter_delete(&iter, true): removes the entry and destroys its
   key and value *)
aws_hash_iter_delete(st, kb) ==
    [st EXCEPT
        !.dest = [x \in DOMAIN st.dest \ {kb} |-> st.dest[x]],
        !.heap = aws_string_destroy(
                     aws_string_destroy(st.heap, st.dest[kb].key),
                     st.dest[kb].value),
        !.destroys = @ + 2,
        !.deletes = @ + 1]

clone_prune_nothing(st, order, source) == st

(* lines 206-215: the scan of dest, in its iteration order *)
RECURSIVE clone_prune(_, _, _)
clone_prune(st, order, source) ==
    IF order = <<>> THEN st
    ELSE IF Head(order) \notin DOMAIN source
         THEN clone_prune(aws_hash_iter_delete(st, Head(order)), Tail(order), source)
         ELSE clone_prune(st, Tail(order), source)

(* lines 227-236: the key is present with another value *)
clone_replace_value(st, kb, srcValue, allocOk) ==
    LET value == clone_or_reuse_string(st.heap, srcValue, allocOk)
    IN  IF value = NullStr THEN [rc |-> ERR_OOM, st |-> st]
        ELSE [rc |-> "next",
              st |-> [st EXCEPT
                  !.dest[kb].value = value,
                  !.heap = aws_string_destroy(WithStr(st.heap, value),
                                              st.dest[kb].value),
                  !.allocs = @ + (IF value = srcValue THEN 0 ELSE 1),
                  !.destroys = @ + 1,
                  !.installed = @ \cup {[from |-> srcValue, to |-> value]}]]

(* lines 237-247: the key is absent *)
clone_insert(st, srcElem, n, failAt) ==
    LET key == clone_or_reuse_string(st.heap, srcElem.key, n + 1 # failAt)
        heap1 == WithStr(st.heap, key)
        value == clone_or_reuse_string(heap1, srcElem.value, n + 2 # failAt)
        heap2 == WithStr(heap1, value)
        put == aws_hash_table_put(st.dest, heap2, key, value, n + 3 # failAt)
        made == (IF key # NullStr /\ key # srcElem.key THEN 1 ELSE 0)
                + (IF value # NullStr /\ value # srcElem.value THEN 1 ELSE 0)
    IN  IF key = NullStr \/ value = NullStr \/ ~put.ok
        THEN [rc |-> ERR_OOM,
              st |-> [st EXCEPT
                  !.heap = aws_string_destroy(aws_string_destroy(heap2, key), value),
                  !.allocs = @ + made,
                  !.destroys = @ + (IF key # NullStr THEN 1 ELSE 0)
                                 + (IF value # NullStr THEN 1 ELSE 0)]]
        ELSE [rc |-> "next",
              st |-> [st EXCEPT
                  !.dest = put.m,
                  !.heap = put.heap,
                  !.allocs = @ + made,
                  !.puts = @ + 1,
                  !.installed = @ \cup {[from |-> srcElem.key, to |-> key],
                                        [from |-> srcElem.value, to |-> value]}]]

clone_value_differs_always(destValue, srcValue) == TRUE

(* line 227: !aws_string_eq(dest_elem->value, iter.element.value) *)
clone_value_differs(destValue, srcValue) == ~aws_string_eq(destValue, srcValue)

(* lines 218-253: the scan of src, in its iteration order; i counts the
   entries visited *)
RECURSIVE clone_reconcile(_, _, _, _, _)
clone_reconcile(st, order, source, i, failAt) ==
    IF i > Len(order) THEN [rc |-> AWS_OP_SUCCESS, st |-> st]
    ELSE
    LET kb == order[i]
        n == 3 * (i - 1)
        step == IF kb \in DOMAIN st.dest
                THEN IF clone_value_differs(st.dest[kb].value, source[kb].value)
                     THEN clone_replace_value(st, kb, source[kb].value,
                                              n + 2 # failAt)
                     ELSE [rc |-> "next", st |-> st]
                ELSE clone_insert(st, source[kb], n, failAt)
    IN  IF step.rc # "next" THEN step
        ELSE clone_reconcile(step.st, order, source, i + 1, failAt)

(* [rc, st].  destOrder and srcOrder: the iteration orders of the two
   tables; failAt: which allocation fails (3(i-1)+1 is the key of the i-th
   source entry visited, +2 its value, +3 its slot in dest), 0 for none. *)
aws_cryptosdk_enc_ctx_clone(dest, source, heap, destOrder, srcOrder, failAt) ==
    clone_reconcile(clone_prune(CloneStart(dest, heap), destOrder, source),
                    srcOrder, source, 1, failAt)

----------------------------------------------------------------------------
(* Inputs *)

(* Tables to serialize: every set of at most MaxEntries keys over KeyBytes,
   every value from Values; and tables at the 65535 boundary *)
KeyBytes == {0, 255}
Values == {<<>>, <<3>>}

Literal(b) == StaticStr(1, b)

TableOf(f) == [k \in DOMAIN f |-> [key |-> Literal(k), value |-> Literal(f[k])]]

KeySets(keys, n) == {S \in SUBSET keys : Cardinality(S) <= n}

SmallTables ==
    UNION {{TableOf(f) : f \in [S -> Values]} :
               S \in KeySets(SeqsUpTo(KeyBytes, MaxKeyLen), MaxEntries)}

BoundaryTables ==
    {TableOf([k \in {<<>>} |-> Pad(UINT16_MAX - d)]) : d \in {5, 6, 7}}
    \cup {TableOf([k \in {<<>>, <<0>>} |->
                     IF k = <<>> THEN Pad(UINT16_MAX - d) ELSE <<>>]) : d \in {10, 11}}
    \cup {TableOf([k \in {<<>>} |-> Pad(UINT16_MAX + 1)])}

(* A table of n * n entries; n = 256 puts it over the entry limit *)
GridTable(n) ==
    TableOf([k \in {<<a, b>> : a \in 0..(n - 1), b \in 0..(n - 1)} |-> <<>>])

SmallBuffers ==
    {[bytes |-> b, capacity |-> c] :
        b \in {<<>>, <<7>>, <<7, 7, 7>>}, c \in 0..MaxCap}

LargeBuffers ==
    {[bytes |-> b, capacity |-> c] :
        b \in {<<>>, <<7>>}, c \in {UINT16_MAX - 1, UINT16_MAX, UINT16_MAX + 1}}

(* The iteration orders of a table.  A table over the entry limit is never
   iterated: lines 47 and 86 return before any iterator is made. *)
HashIterOrders(m) ==
    IF Cardinality(DOMAIN m) > UINT16_MAX THEN {<<>>} ELSE Perms(DOMAIN m)

(* Inputs to parse: every byte string over WireBytes up to MaxInputLen, and
   every prefix of a count followed by up to MaxWireEntries entries *)
WireBytes == {0, 1, 2}
WireKeys == {<<>>, <<1>>}
WireValues == {<<>>, <<2>>}

(* the wire format's 16-bit big-endian field *)
U16(n) == <<n \div 256, n % 256>>

WireEntry(k, v) == U16(Len(k)) \o k \o U16(Len(v)) \o v

RECURSIVE Concat(_)
Concat(ss) == IF ss = <<>> THEN <<>> ELSE Head(ss) \o Concat(Tail(ss))

Prefixes(s) == {SubSeq(s, 1, n) : n \in 0..Len(s)}

WireEntries == {WireEntry(k, v) : k \in WireKeys, v \in WireValues}

Inputs ==
    SeqsUpTo(WireBytes, MaxInputLen)
    \cup UNION {Prefixes(U16(c) \o Concat(es)) :
                  c \in 0..MaxWireEntries, es \in SeqsUpTo(WireEntries, MaxWireEntries)}

PriorTables ==
    {EmptyTable,
     [k \in {<<1>>} |-> [key |-> StaticStr(1, <<1>>), value |-> HeapStr(1, <<9>>)]],
     [k \in {<<>>, <<2>>} |-> [key |-> HeapStr(IF k = <<>> THEN 1 ELSE 3, k),
                                value |-> HeapStr(IF k = <<>> THEN 2 ELSE 4, <<9>>)]]}

(* Tables to clone: over the keys <<1>> .. <<MaxCloneKeys>>, each string
   static or allocator-owned, no allocator-owned string in two places *)
CloneKeys == {<<i>> : i \in 1..MaxCloneKeys}

MkStr(owned, i, b) == IF owned THEN HeapStr(i, b) ELSE StaticStr(i, b)

(* per key: absent, or <<key owned, value owned, value bytes>> *)
SrcShapes == {<<>>} \cup {<<ko, vo, <<5>>>> : ko \in BOOLEAN, vo \in BOOLEAN}
DestShapes == {<<>>} \cup {<<o, o, v>> : o \in BOOLEAN, v \in {<<5>>, <<6>>}}

(* the table of shape sh, its strings numbered from base *)
CloneTable(sh, base) ==
    [k \in {x \in CloneKeys : sh[x] # <<>>} |->
        [key |-> MkStr(sh[k][1], base + 2 * k[1] - 1, k),
         value |-> MkStr(sh[k][2], base + 2 * k[1], sh[k][3])]]

----------------------------------------------------------------------------
(* The calls.  Each is one whole function of enc_ctx.c; `call` records the
   inputs of the last one and what the claims need of what it did. *)

NoCall == [op |-> "none"]
EmptyBuf == [bytes |-> <<>>, capacity |-> 0]

(* In SpecSer a caller sizes a table (or not), serializes it once and parses
   what was written: the guards on call.op keep that order. *)
Size ==
    /\ call.op = "none"
    /\ \E order \in HashIterOrders(src) :
        LET r == aws_cryptosdk_enc_ctx_size(src, order)
        IN  /\ result' = r.rc
            /\ call' = [op |-> "size", size |-> r.size]
            /\ UNCHANGED <<enc_ctx, src, output, cursor, live>>

Serialize ==
    /\ call.op \in {"none", "size"}
    /\ \E order \in HashIterOrders(src), allocOk \in BOOLEAN :
        LET r == aws_cryptosdk_enc_ctx_serialize(output, src, order, allocOk)
        IN  /\ result' = r.rc
            /\ output' = r.output
            /\ call' = [op |-> "serialize", before |-> output,
                        order |-> order, allocOk |-> allocOk]
            /\ UNCHANGED <<enc_ctx, src, cursor, live>>

Deserialized(input, failAt, from) ==
    LET r == aws_cryptosdk_enc_ctx_deserialize(enc_ctx, live, input, failAt)
    IN  /\ result' = r.rc
        /\ enc_ctx' = r.m
        /\ live' = r.heap
        /\ cursor' = r.cursor
        /\ call' = [op |-> "deserialize", input |-> input, prior |-> enc_ctx,
                    failAt |-> failAt, from |-> from]
        /\ UNCHANGED <<src, output>>

(* deserialize on the cursor as the last call left it *)
Deserialize ==
    \E failAt \in 0..(3 * MaxWireEntries) :
        Deserialized(cursor, failAt, NoCall)

(* deserialize on a cursor over what a serialize has just produced
   (aws_byte_cursor_from_buf(&output)) *)
DeserializeOutput ==
    /\ call.op = "serialize"
    /\ \E failAt \in 0..(3 * MaxEntries) :
           Deserialized(output.bytes, failAt, [call EXCEPT !.op = result])

(* In SpecClone a caller clones, and clones once more when that succeeded.
   The scan of dest visits every key once and touches only that key's
   entry, so what it leaves does not depend on its order: one order is
   taken.  The order of the scan of src decides what a failing call has
   done, and every order is taken. *)
Clone ==
    /\ \/ call.op = "none"
       \/ call.op = "clone" /\ result = AWS_OP_SUCCESS /\ ~call.again
    /\ \E srcOrder \in Perms(DOMAIN src), failAt \in 0..(3 * MaxCloneKeys) :
        LET destOrder == CHOOSE o \in Perms(DOMAIN enc_ctx) : TRUE
            r == aws_cryptosdk_enc_ctx_clone(enc_ctx, src, live,
                                             destOrder, srcOrder, failAt)
        IN  /\ result' = r.rc
            /\ enc_ctx' = r.st.dest
            /\ live' = r.st.heap
            /\ call' = [op |-> "clone", before |-> enc_ctx,
                        allocs |-> r.st.allocs, destroys |-> r.st.destroys,
                        deletes |-> r.st.deletes, puts |-> r.st.puts,
                        installed |-> r.st.installed,
                        again |-> call.op = "clone"]
            /\ UNCHANGED <<src, output, cursor>>

----------------------------------------------------------------------------
(* Specifications *)

(* size, serialize and the round trip through deserialize *)
InitSer ==
    /\ \/ src \in SmallTables /\ output \in SmallBuffers
       \/ src \in BoundaryTables \cup {GridTable(256)} /\ output \in LargeBuffers
    /\ Len(output.bytes) <= output.capacity
    /\ enc_ctx = EmptyTable
    /\ cursor = <<>>
    /\ live = {}
    /\ result = "none"
    /\ call = NoCall

NextSer == Size \/ Serialize \/ DeserializeOutput

SpecSer == InitSer /\ [][NextSer]_vars

(* deserialize on untrusted input *)
InitDeser ==
    /\ cursor \in Inputs
    /\ enc_ctx \in PriorTables
    /\ live = OwnedIds(enc_ctx)
    /\ src = EmptyTable
    /\ output = EmptyBuf
    /\ result = "none"
    /\ call = NoCall

NextDeser == Deserialize

SpecDeser == InitDeser /\ [][NextDeser]_vars

(* clone *)
InitClone ==
    /\ \E ss \in [CloneKeys -> SrcShapes], ds \in [CloneKeys -> DestShapes] :
           /\ src = CloneTable(ss, 0)
           /\ enc_ctx = CloneTable(ds, 2 * MaxCloneKeys)
    /\ live = OwnedIds(src) \cup OwnedIds(enc_ctx)
    /\ output = EmptyBuf
    /\ cursor = <<>>
    /\ result = "none"
    /\ call = NoCall

NextClone == Clone

SpecClone == InitClone /\ [][NextClone]_vars

----------------------------------------------------------------------------
(* The vocabulary of the claims, independent of the code above *)

RECURSIVE SumSizes(_, _)
SumSizes(m, S) ==
    IF S = {} THEN 0
    ELSE LET k == CHOOSE x \in S : TRUE
         IN  4 + Len(m[k].key.bytes) + Len(m[k].value.bytes) + SumSizes(m, S \ {k})

(* 2 + the sum over the entries of 4 + key length + value length *)
Total(m) == 2 + SumSizes(m, DOMAIN m)

OverLimit(m) == Cardinality(DOMAIN m) > UINT16_MAX \/ Total(m) > UINT16_MAX

(* strictly less in byte-lexicographic order *)
LexLess(a, b) ==
    \E i \in 1..(Len(b)) :
        /\ \A j \in 1..(i - 1) : j <= Len(a) /\ a[j] = b[j]
        /\ \/ Len(a) = i - 1
           \/ Len(a) >= i /\ a[i] < b[i]

(* the keys of a table in strictly increasing order *)
SortedKeys(m) ==
    CHOOSE s \in Perms(DOMAIN m) : \A i \in 1..(Len(s) - 1) : LexLess(s[i], s[i + 1])

EntriesInOrder(m, keys) ==
    Concat([i \in 1..Len(keys) |->
               WireEntry(keys[i], m[keys[i]].value.bytes)])

CountThenSortedEntries(m) ==
    U16(Cardinality(DOMAIN m)) \o EntriesInOrder(m, SortedKeys(m))

(* the keys of the leading entries of b that are fully present, at most n *)
RECURSIVE CompleteKeys(_, _)
CompleteKeys(b, n) ==
    IF n = 0 \/ Len(b) < 2 THEN <<>>
    ELSE LET kl == b[1] * 256 + b[2]
         IN  IF Len(b) < kl + 4 THEN <<>>
             ELSE LET vl == b[kl + 3] * 256 + b[kl + 4]
                  IN  IF Len(b) < kl + vl + 4 THEN <<>>
                      ELSE <<SubSeq(b, 3, kl + 2)>>
                           \o CompleteKeys(Drop(b, kl + vl + 4), n - 1)

DeclaredCount(input) == input[1] * 256 + input[2]

DeclaredKeys(input) == CompleteKeys(Drop(input, 2), DeclaredCount(input))

HasDuplicateKey(input) ==
    /\ Len(input) >= 2
    /\ \E i, j \in 1..Len(DeclaredKeys(input)) :
           i < j /\ DeclaredKeys(input)[i] = DeclaredKeys(input)[j]

Truncated(input) ==
    \/ Len(input) = 1
    \/ /\ Len(input) >= 2
       /\ DeclaredCount(input) # 0
       /\ Len(DeclaredKeys(input)) < DeclaredCount(input)

IsRoundTrip ==
    /\ call.op = "deserialize"
    /\ call.from.op = AWS_OP_SUCCESS
    /\ call.from.before.bytes = <<>>
    /\ call.failAt = 0

----------------------------------------------------------------------------
(* Claims *)

(* C1: round trip.  A table within the limit, serialized into an empty
   buffer with room for it (the array allocated), is serialized with
   success, the empty table to zero bytes; and deserializing the bytes
   written, with no allocation failing, succeeds and yields a table with
   exactly the key/value pairs of the serialized one, whatever the
   iteration order. *)
C1_RoundTrip ==
    /\ (/\ call.op = "serialize"
        /\ call.before.bytes = <<>>
        /\ call.allocOk
        /\ ~OverLimit(src)
        /\ call.before.capacity >= Total(src))
       => /\ result = AWS_OP_SUCCESS
          /\ (src = EmptyTable => output.bytes = <<>>)
    /\ IsRoundTrip
       => /\ result = AWS_OP_SUCCESS
          /\ Pairs(enc_ctx) = Pairs(src)
          /\ cursor = <<>>

C1_Witness ==
    /\ IsRoundTrip
    /\ Cardinality(DOMAIN src) = 2
    /\ \E k \in DOMAIN src : src[k].value.bytes # <<>>
    /\ Len(call.input) <= MaxCap
    /\ Pairs(enc_ctx) = Pairs(src)

(* C2, as stated: every successful serialize appends the 2-byte big-endian
   entry count followed by the entries in strictly increasing
   byte-lexicographic order of their keys. *)
C2_Original ==
    (call.op = "serialize" /\ result = AWS_OP_SUCCESS)
    => output.bytes = call.before.bytes \o CountThenSortedEntries(src)

(* C2, amended: a successful serialize appends nothing for the empty table
   and otherwise the 2-byte big-endian entry count followed by the entries
   in strictly increasing byte-lexicographic order of their keys, each as
   key length, key bytes, value length, value bytes, whatever the iteration
   order of the table. *)
C2_Canonical ==
    (call.op = "serialize" /\ result = AWS_OP_SUCCESS)
    => output.bytes = call.before.bytes
                      \o (IF src = EmptyTable THEN <<>> ELSE CountThenSortedEntries(src))

C2_Witness ==
    /\ call.op = "serialize"
    /\ result = AWS_OP_SUCCESS
    /\ Cardinality(DOMAIN src) = 2
    /\ call.order # SortedKeys(src)
    /\ output.bytes = call.before.bytes \o CountThenSortedEntries(src)

(* C6: size returns 0 for the empty table, exactly 2 + the sum of
   (4 + key length + value length) when there are 1..65535 entries and that
   total is at most 65535, and LimitExceeded without writing a size when
   there are more entries or the total is larger; serialize fails with
   LimitExceeded on exactly the tables size fails on, and succeeds on the
   others given room in the buffer and the array allocated. *)
C6_SizeLimit ==
    /\ call.op = "size"
       => IF src = EmptyTable
          THEN result = AWS_OP_SUCCESS /\ call.size = 0
          ELSE IF OverLimit(src)
          THEN result = ERR_LIMIT_EXCEEDED /\ call.size = -1
          ELSE result = AWS_OP_SUCCESS /\ call.size = Total(src)
    /\ call.op = "serialize"
       => /\ result = ERR_LIMIT_EXCEEDED <=> (src # EmptyTable /\ OverLimit(src))
          /\ (/\ src # EmptyTable
              /\ ~OverLimit(src)
              /\ call.allocOk
              /\ call.before.capacity - Len(call.before.bytes) >= Total(src))
             => result = AWS_OP_SUCCESS

C6_Witness ==
    /\ call.op = "size"
    /\ result = AWS_OP_SUCCESS
    /\ call.size = UINT16_MAX

(* C7: a serialize that returns an error leaves the buffer exactly as it
   was before the call, or cleaned up; never with the count or entries
   appended. *)
C7_NoPartialWrite ==
    (call.op = "serialize" /\ result # AWS_OP_SUCCESS)
    => (output = call.before \/ output = EmptyBuf)

(* C3: whenever deserialize returns an error, whatever the failure and
   whatever the table held before, the table is empty on return and none of
   its strings is left allocated. *)
C3_FailureLeavesEmpty ==
    (call.op = "deserialize" /\ result # AWS_OP_SUCCESS)
    => (enc_ctx = EmptyTable /\ live = {})

(* a failure after one entry at least was parsed and inserted, into a
   table that held entries before the call *)
C3_Witness ==
    /\ call.op = "deserialize"
    /\ result # AWS_OP_SUCCESS
    /\ call.prior # EmptyTable
    /\ Len(call.input) - Len(cursor) >= 6
    /\ enc_ctx = EmptyTable

(* C4: with no allocation failing, an input whose fully present declared
   entries hold the same key twice fails with BadCiphertext; and every
   successful deserialize of a non-empty input leaves exactly as many
   distinct keys as the count declares (none for the empty input). *)
C4_DuplicateRejected ==
    call.op = "deserialize"
    => /\ (call.failAt = 0 /\ HasDuplicateKey(call.input))
          => result = ERR_BAD_CIPHERTEXT
       /\ result = AWS_OP_SUCCESS
          => Cardinality(DOMAIN enc_ctx)
                = (IF call.input = <<>> THEN 0 ELSE DeclaredCount(call.input))

C4_Witness ==
    /\ call.op = "deserialize"
    /\ call.failAt = 0
    /\ HasDuplicateKey(call.input)
    /\ DeclaredCount(call.input) = 2
    /\ result = ERR_BAD_CIPHERTEXT
    /\ enc_ctx = EmptyTable

(* C5, as stated (no allocation failing): every truncated input fails with
   ShortBuffer and leaves the table empty. *)
C5_Original ==
    (call.op = "deserialize" /\ call.failAt = 0 /\ Truncated(call.input))
    => (result = ERR_SHORT_BUFFER /\ enc_ctx = EmptyTable)

(* C5, amended: every truncated input fails and leaves the table empty; the
   error is ShortBuffer when no allocation fails and the entries fully
   present before the truncation hold no key twice (a repeated key among
   them is met first and fails with BadCiphertext). *)
C5_Truncation ==
    (call.op = "deserialize" /\ Truncated(call.input))
    => /\ result # AWS_OP_SUCCESS
       /\ enc_ctx = EmptyTable
       /\ (call.failAt = 0 /\ ~HasDuplicateKey(call.input))
          => result = ERR_SHORT_BUFFER
       /\ (call.failAt = 0 /\ HasDuplicateKey(call.input))
          => result = ERR_BAD_CIPHERTEXT

(* an input cut after its first entry was parsed and inserted *)
C5_Witness ==
    /\ call.op = "deserialize"
    /\ call.failAt = 0
    /\ Len(call.input) >= 2
    /\ Truncated(call.input)
    /\ Len(DeclaredKeys(call.input)) >= 1
    /\ result = ERR_SHORT_BUFFER
    /\ enc_ctx = EmptyTable

(* C8: when clone returns success, the destination has the keys of the
   source and, for each, a value with the bytes of the source's value; the
   source is what it was and its strings are still allocated. *)
C8_CloneConverges ==
    (call.op = "clone" /\ result = AWS_OP_SUCCESS)
    => /\ DOMAIN enc_ctx = DOMAIN src
       /\ \A k \in DOMAIN src :
              /\ enc_ctx[k].value.bytes = src[k].value.bytes
              /\ enc_ctx[k].key.bytes = k
       /\ OwnedIds(src) \subseteq live

(* a clone that removed a key absent from the source and inserted a key
   the destination lacked *)
C8_Witness ==
    /\ call.op = "clone"
    /\ result = AWS_OP_SUCCESS
    /\ call.deletes >= 1
    /\ call.puts >= 1
    /\ Pairs(enc_ctx) = Pairs(src)

(* C9: every string clone stores in the destination is the source string
   itself if and only if that string is static; otherwise it is an
   allocator-owned copy with the same bytes that is no string of the
   source.  The destination and the source never share an allocator-owned
   string, and every allocator-owned string of either is allocated. *)
C9_CopyOrReuse ==
    /\ call.op = "clone"
       => \A p \in call.installed :
              /\ p.to = p.from <=> ~p.from.owned
              /\ p.from.owned
                 => /\ p.to.owned
                    /\ p.to.bytes = p.from.bytes
                    /\ p.to.id \notin OwnedIds(src)
                    /\ p.to.id \in live
    /\ OwnedIds(enc_ctx) \cap OwnedIds(src) = {}
    /\ OwnedIds(enc_ctx) \cup OwnedIds(src) \subseteq live

(* a clone that stored a static string of the source by reference and a
   copy of an allocator-owned one *)
C9_Witness ==
    /\ call.op = "clone"
    /\ \E p \in call.installed : ~p.from.owned /\ p.to = p.from
    /\ \E p \in call.installed : p.from.owned /\ p.to # p.from
    /\ \E k \in DOMAIN enc_ctx : enc_ctx[k].value \in StringsOf(src)

(* C10: a clone that follows a successful clone succeeds without
   allocating or destroying a string, removing or inserting an entry, and
   leaves every key and value reference of the destination as it was. *)
C10_CloneIdempotent ==
    (call.op = "clone" /\ call.again)
    => /\ result = AWS_OP_SUCCESS
       /\ call.allocs = 0
       /\ call.destroys = 0
       /\ call.deletes = 0
       /\ call.puts = 0
       /\ call.installed = {}
       /\ enc_ctx = call.before
       /\ Pairs(enc_ctx) = Pairs(src)

(* a second clone of a source that holds allocator-owned strings *)
C10_Witness ==
    /\ call.op = "clone"
    /\ call.again
    /\ result = AWS_OP_SUCCESS
    /\ enc_ctx = call.before
    /\ \E k \in DOMAIN src : src[k].key.owned /\ src[k].value.owned

============================================================================
